---- MODULE Spec2Model ----
(***************************************************************************)
(* Control plane of the dataflow engine in src/src/flow/mod.rs: the        *)
(* Blender (the spec's Conductor), its Migration, and the commit pipeline. *)
(* Node indices are positions in the node sequence (Source first), edges   *)
(* are kept in insertion order as in petgraph.                             *)
(***************************************************************************)
EXTENDS Integers, Sequences, FiniteSets, TLC

VARIABLES
    ingredients,   \* Blender.ingredients: [nodes: Seq(Node), edges: Seq(Edge)]
    ndomains,      \* Blender.ndomains
    checktable,    \* Blender.checktable: [next_timestamp, migrating]
    txs,           \* Blender.txs: domain -> queue of the control channel
    in_txs,        \* Blender.in_txs: domain -> queue of the input channel
    domains,       \* Blender.domains: booted workers (join handles), in boot order
    VIEW_READERS,  \* the process-wide registry: set of <<reader, handle>>
    active,        \* number of live Migration objects borrowing the Blender
    migration,     \* the Migration: [added, columns, readers, materialize]
    pc,            \* position of the caller thread
    commit,        \* locals of a running commit()
    nmig,          \* migrations started so far
    ranges,        \* (start_ts, end_ts) returned by perform_migration, in order
    published,     \* per domain, what finalize has sent it: [at, replay_paths]
    finalized,     \* the end_ts of every migration whose finalize step is over
    writes,        \* timestamped base writes: [ts, base, finalized, at]
    processed,     \* writes a domain has processed: [ts, start]
    snapshot,      \* the graph and the domain counter when the Migration was started
    ret,           \* what the latest call on the Migration returned to its caller
    shutdown,      \* Drop for Blender: [quit: domain -> outcome of the send, joined: Seq]
    exited,        \* domains whose worker thread has terminated
    tokens,        \* transactional reads made so far: [token, at, fresh]
    handed,        \* the domain indices handed out so far, in order
    blender,       \* which Blender of the process this is (the first is 1)
    backlog,       \* per registered Reader, the state behind its read handle
    lookup         \* the calls made on closures of get_getter: [reader, key, block, status, rows]

vars == <<ingredients, ndomains, checktable, txs, in_txs, domains, VIEW_READERS,
          active, migration, pc, commit, nmig, ranges, published, finalized, writes, processed,
          snapshot, ret, shutdown, exited, tokens, handed,
                   blender, backlog, lookup>>

\* ---------------------------------------------------------------- bounds
MaxNodes == 4
MaxDomains == 1
MaxMigrations == 2
MaxParents == 2
MaxKey == 0
MaxStreamers == 1
MaxWrites == 2
MaxColumns == 2
MaxTokens == 2
MaxQuery == 1
MaxReaderKey == 1
MaxRows == 1
MaxLookups == 2
MaxBlenders == 2

\* ------------------------------------------------------- program constants
None == -1
Source == 1
ControlCap == 1
RendezvousAck == ControlCap - ControlCap
AckCap == 1
InputCap == 256
MigrationSpan == 2

Keys == 0..MaxKey

\* the key columns maintain is called with where two of them are needed
ReaderKeys == 0..MaxReaderKey

\* the keys a lookup can ask for
Queries == 0..MaxQuery

\* ----------------------------------------------------------------- helpers
Range(f) == {f[x] : x \in DOMAIN f}

Min(S) == CHOOSE x \in S : \A y \in S : x <= y

Max(S) == CHOOSE x \in S : \A y \in S : x >= y

RECURSIVE SetToSeq(_)
SetToSeq(S) == IF S = {} THEN <<>> ELSE <<Min(S)>> \o SetToSeq(S \ {Min(S)})

NodeIds(g) == 1..Len(g.nodes)

\* node::Node::new: no domain, no local address
NewNode(type, transactional, parents) ==
    [type |-> type, transactional |-> transactional, domain |-> None, addr |-> None,
     parents |-> parents, state |-> None, token_generator |-> FALSE,
     streamers |-> 0, taken |-> FALSE, fields |-> 1, dropped |-> {}]

\* Node::mirror: a node of another type with the name, fields and transactional
\* flag of this one
mirror(n, type) == NewNode(type, n.transactional, {})

add_node(g, n) == [g EXCEPT !.nodes = Append(@, n)]

add_edge(g, src, dst, w) == [g EXCEPT !.edges = Append(@, [src |-> src, dst |-> dst, w |-> w])]

find_edge(g, src, dst) == {i \in 1..Len(g.edges) : g.edges[i].src = src /\ g.edges[i].dst = dst}

Parents(g, n) == {g.edges[i].src : i \in {j \in 1..Len(g.edges) : g.edges[j].dst = n}}

Children(g, n) == {g.edges[i].dst : i \in {j \in 1..Len(g.edges) : g.edges[j].src = n}}

\* the node a Reader (or any node with one parent) hangs off
ReaderParentOf(g, r) == CHOOSE p \in NodeIds(g) : find_edge(g, p, r) # {}

IsOperator(g, n) == g.nodes[n].type \in {"Base", "Internal"}

\* nodes made by calls on a Migration (the routing pass adds its own on top)
CallerNodes(g) == Cardinality({n \in NodeIds(g) : g.nodes[n].type \notin {"Ingress", "Egress"}})

Room == CallerNodes(ingredients) < MaxNodes

\* ColumnChange::Add(field, default) for the column with this index
Add(col) == [change |-> "Add", col |-> col]

\* ColumnChange::Drop(column)
Drop(col) == [change |-> "Drop", col |-> col]

EmptyMigration == [added |-> <<>>, columns |-> <<>>, readers |-> <<>>, materialize |-> {}]

NoCommit == [new |-> {}, rxs |-> {}, changed_domains |-> {}, start_ts |-> None,
             end_ts |-> None, replay_paths |-> FALSE, todo |-> {}, acks |-> <<>>]

\* Blender::default
Init ==
    /\ ingredients = [nodes |-> <<NewNode("Source", TRUE, {})>>, edges |-> <<>>]
    /\ ndomains = 0
    /\ checktable = [next_timestamp |-> 1, migrating |-> FALSE, last |-> <<>>]
    /\ txs = <<>>
    /\ in_txs = <<>>
    /\ domains = <<>>
    /\ VIEW_READERS = {}
    /\ active = 0
    /\ migration = EmptyMigration
    /\ pc = "idle"
    /\ commit = NoCommit
    /\ nmig = 0
    /\ ranges = <<>>
    /\ published = <<>>
    /\ finalized = <<>>
    /\ writes = {}
    /\ processed = {}
    /\ snapshot = [ingredients |-> ingredients, ndomains |-> ndomains]
    /\ ret = "none"
    /\ shutdown = [quit |-> <<>>, joined |-> <<>>]
    /\ exited = {}
    /\ tokens = {}
    /\ handed = <<>>
    /\ blender = 1
    /\ backlog = <<>>
    /\ lookup = {}

\* ------------------------------------------------------------- Migration
\* &mut self of start_migration, held by Migration.mainline: the call is only
\* possible while no Migration borrows the Blender
SharedBorrow == TRUE

ExclusiveBorrow == active = 0

start_migration ==
    /\ pc \in {"idle", "building"}
    /\ ExclusiveBorrow
    /\ nmig < MaxMigrations
    /\ active' = active + 1
    /\ migration' = EmptyMigration
    /\ pc' = "building"
    /\ nmig' = nmig + 1
    /\ UNCHANGED <<ingredients, ndomains, checktable, txs, in_txs, domains, VIEW_READERS,
                   commit, ranges, published, finalized, writes, processed, shutdown, exited,
                   tokens, handed,
                   blender, backlog, lookup>>
    /\ snapshot' = [ingredients |-> ingredients, ndomains |-> ndomains]
    /\ ret' = "none"

Building == pc = "building" /\ active > 0

\* self.mainline.ndomains += 1; (self.mainline.ndomains - 1).into(): the counter
\* afterwards and the index returned
ReturnsCounter(nd) == [ndomains |-> nd + 1, index |-> nd + 1]

NewDomain(nd) == [ndomains |-> nd + 1, index |-> (nd + 1) - 1]

add_domain ==
    /\ Building
    /\ ndomains < MaxDomains
    /\ ndomains' = NewDomain(ndomains).ndomains
    /\ handed' = Append(handed, NewDomain(ndomains).index)
    /\ UNCHANGED <<ingredients, checktable, txs, in_txs, domains, VIEW_READERS, active,
                   migration, pc, commit, nmig, ranges, published, finalized, writes, processed,
                   snapshot, shutdown, exited, tokens, blender, backlog, lookup>>
    /\ ret' = "none"

\* the transactional flag add_ingredient computes from the operator's ancestors
AnyParentTransactional(g, parents) ==
    parents # {} /\ \E p \in parents : g.nodes[p].transactional

IngredientTransactional(g, parents) ==
    parents # {} /\ \A p \in parents : g.nodes[p].transactional

RECURSIVE AddEdgesFrom(_, _, _)
AddEdgesFrom(g, ps, ni) ==
    IF ps = <<>> THEN g ELSE AddEdgesFrom(add_edge(g, Head(ps), ni, FALSE), Tail(ps), ni)

\* if parents.is_empty() { add_edge(source, ni, false) } else { one edge per parent }
AlwaysFromSource(g, parents) ==
    LET ni == Len(g.nodes) + 1
        type == IF parents = {} THEN "Base" ELSE "Internal"
        g1 == add_node(g, NewNode(type, IngredientTransactional(g, parents), parents))
    IN  AddEdgesFrom(add_edge(g1, Source, ni, FALSE), SetToSeq(parents), ni)

AddIngredientGraph(g, parents) ==
    LET ni == Len(g.nodes) + 1
        type == IF parents = {} THEN "Base" ELSE "Internal"
        g1 == add_node(g, NewNode(type, IngredientTransactional(g, parents), parents))
    IN  IF parents = {} THEN add_edge(g1, Source, ni, FALSE)
        ELSE AddEdgesFrom(g1, SetToSeq(parents), ni)

add_ingredient(parents) ==
    /\ Building
    /\ Room
    /\ ingredients' = AddIngredientGraph(ingredients, parents)
    /\ migration' = [migration EXCEPT !.added = @ @@ (Len(ingredients.nodes) + 1 :> None)]
    /\ UNCHANGED <<ndomains, checktable, txs, in_txs, domains, VIEW_READERS, active, pc, commit,
                   nmig, ranges, published, finalized, writes, processed, snapshot, shutdown,
                   exited, tokens, handed,
                   blender, backlog, lookup>>
    /\ ret' = "none"

add_transactional_base ==
    /\ Building
    /\ Room
    /\ LET ni == Len(ingredients.nodes) + 1
       IN  /\ ingredients' = add_edge(add_node(ingredients, NewNode("Base", TRUE, {})),
                                      Source, ni, FALSE)
           /\ migration' = [migration EXCEPT !.added = @ @@ (ni :> None)]
    /\ UNCHANGED <<ndomains, checktable, txs, in_txs, domains, VIEW_READERS, active, pc, commit,
                   nmig, ranges, published, finalized, writes, processed, snapshot, shutdown,
                   exited, tokens, handed,
                   blender, backlog, lookup>>
    /\ ret' = "none"

\* assert_eq!(self.added.insert(n, Some(d)).unwrap(), None): the insert happens
\* first, the assertion fails for a node that is not in added or already assigned
InsertsUnchecked(m, n) == TRUE

WasAddedUnassigned(m, n) == n \in DOMAIN m.added /\ m.added[n] = None

assign_domain(n, d) ==
    /\ Building
    /\ migration' = [migration EXCEPT !.added = (n :> d) @@ @]
    /\ pc' = IF WasAddedUnassigned(migration, n) THEN pc ELSE "panicked"
    /\ UNCHANGED <<ingredients, ndomains, checktable, txs, in_txs, domains, VIEW_READERS,
                   active, commit, nmig, ranges, published, finalized, writes, processed,
                   snapshot, shutdown, exited, tokens, handed,
                   blender, backlog, lookup>>
    /\ ret' = "none"

HasReader(m, n) == n \in DOMAIN m.readers

\* ensure_reader_for: the graph and the readers map afterwards
EnsureReaderGraph(g, m, n) ==
    IF HasReader(m, n) THEN g
    ELSE add_edge(add_node(g, mirror(g.nodes[n], "Reader")), n, Len(g.nodes) + 1, FALSE)

EnsureReaderMap(g, m, n) ==
    IF HasReader(m, n) THEN m
    ELSE [m EXCEPT !.readers = @ @@ (n :> Len(g.nodes) + 1)]

\* maintain calls ensure_token_generator only for a transactional node
NeedsTokenGenerator(g, n) == g.nodes[n].transactional

\* ensure_token_generator: the reader keeps a generator it already has
ReturnsBeforeTracking(g, ri) == g

ensure_token_generator(g, ri) ==
    IF g.nodes[ri].token_generator THEN g
    ELSE [g EXCEPT !.nodes[ri].token_generator = TRUE]

\* if let Some(skey) = inner.state { assert_eq!(skey, key); } else
\* { inner.state = Some(key); }
TakesLatestKey(skey, key) == key

KeepsFirstKey(skey, key) == IF skey # None THEN skey ELSE key

maintain(n, key) ==
    /\ Building
    /\ HasReader(migration, n) \/ Room
    /\ LET g1 == EnsureReaderGraph(ingredients, migration, n)
           m1 == EnsureReaderMap(ingredients, migration, n)
           ri == m1.readers[n]
           g2 == IF NeedsTokenGenerator(g1, n) THEN ensure_token_generator(g1, ri) ELSE g1
           skey == g2.nodes[ri].state
       IN  /\ migration' = m1
           /\ ingredients' = [g2 EXCEPT !.nodes[ri].state = KeepsFirstKey(skey, key)]
           /\ pc' = IF skey # None /\ skey # key THEN "panicked" ELSE pc
    /\ UNCHANGED <<ndomains, checktable, txs, in_txs, domains, VIEW_READERS, active, commit,
                   nmig, ranges, published, finalized, writes, processed, snapshot, shutdown,
                   exited, tokens, handed, blender, backlog, lookup>>
    /\ ret' = "none"

stream(n) ==
    /\ Building
    /\ HasReader(migration, n) \/ Room
    /\ LET g1 == EnsureReaderGraph(ingredients, migration, n)
           m1 == EnsureReaderMap(ingredients, migration, n)
           ri == m1.readers[n]
           reader == g1.nodes[ri]
       IN  /\ migration' = m1
           /\ IF ~reader.taken
              THEN /\ reader.streamers < MaxStreamers
                   /\ ingredients' = [g1 EXCEPT !.nodes[ri].streamers = @ + 1]
                   /\ txs' = txs
              ELSE /\ Len(txs[reader.domain]) < ControlCap
                   /\ ingredients' = g1
                   /\ txs' = [txs EXCEPT ![reader.domain] =
                                 Append(@, [type |-> "AddStreamer", node |-> reader.addr])]
    /\ UNCHANGED <<ndomains, checktable, in_txs, domains, VIEW_READERS, active, pc, commit,
                   nmig, ranges, published, finalized, writes, processed, snapshot, shutdown,
                   exited, tokens, handed,
                   blender, backlog, lookup>>
    /\ ret' = "none"

\* try!(hook::Hook::new(..)) returns the I/O error before anything is touched
AddsHookBeforeConnecting(g, n, connected) ==
    add_edge(add_node(g, mirror(g.nodes[n], "Hook")), n, Len(g.nodes) + 1, FALSE)

HookGraph(g, n, connected) ==
    IF connected
    THEN add_edge(add_node(g, mirror(g.nodes[n], "Hook")), n, Len(g.nodes) + 1, FALSE)
    ELSE g

memcached_hook(n, connected) ==
    /\ Building
    /\ Room
    /\ ingredients' = HookGraph(ingredients, n, connected)
    /\ ret' = IF connected THEN "Ok" ELSE "IoError"
    /\ UNCHANGED <<ndomains, checktable, txs, in_txs, domains, VIEW_READERS, active, migration,
                   pc, commit, nmig, ranges, published, finalized, writes, processed, snapshot,
                   shutdown, exited, tokens, handed,
                   blender, backlog, lookup>>

\* not allowed to add columns to (or drop them from) new nodes; the node must be
\* a base
ChangesAnyBase(m, g, n) == g.nodes[n].type = "Base"

ColumnChangeAllowed(m, g, n) == n \notin DOMAIN m.added /\ g.nodes[n].type = "Base"

\* add_column: the new column's index is the number of fields the base had
add_column(n) ==
    /\ Building
    /\ Len(migration.columns) < MaxColumns
    /\ IF ColumnChangeAllowed(migration, ingredients, n)
       THEN /\ ingredients' = [ingredients EXCEPT !.nodes[n].fields = @ + 1]
            /\ migration' = [migration EXCEPT
                  !.columns = Append(@, <<n, Add(ingredients.nodes[n].fields)>>)]
            /\ pc' = pc
       ELSE /\ pc' = "panicked"
            /\ UNCHANGED <<ingredients, migration>>
    /\ ret' = "none"
    /\ UNCHANGED <<ndomains, checktable, txs, in_txs, domains, VIEW_READERS, active, commit,
                   nmig, ranges, published, finalized, writes, processed, snapshot, shutdown,
                   exited, tokens, handed,
                   blender, backlog, lookup>>

\* drop_column: the base of a node a worker has taken is told at once
drop_column(n, column) ==
    /\ Building
    /\ Len(migration.columns) < MaxColumns
    /\ IF ColumnChangeAllowed(migration, ingredients, n)
       THEN /\ ingredients' = IF ingredients.nodes[n].taken
                               THEN [ingredients EXCEPT !.nodes[n].dropped = @ \cup {column}]
                               ELSE ingredients
            /\ migration' = [migration EXCEPT !.columns = Append(@, <<n, Drop(column)>>)]
            /\ pc' = pc
       ELSE /\ pc' = "panicked"
            /\ UNCHANGED <<ingredients, migration>>
    /\ ret' = "none"
    /\ UNCHANGED <<ndomains, checktable, txs, in_txs, domains, VIEW_READERS, active, commit,
                   nmig, ranges, published, finalized, writes, processed, snapshot, shutdown,
                   exited, tokens, handed,
                   blender, backlog, lookup>>

\* if !*e { *e = true; self.materialize.insert((src, dst)); }
InsertAlways(pairs, src, dst, e) == pairs \cup {<<src, dst>>}

InsertIfUnset(pairs, src, dst, e) == IF ~e THEN pairs \cup {<<src, dst>>} ELSE pairs

\* materialize: "asked to materialize non-existing edge" is fatal
materialize(src, dst) ==
    /\ Building
    /\ LET es == find_edge(ingredients, src, dst)
       IN  IF es = {}
           THEN /\ pc' = "panicked"
                /\ UNCHANGED <<ingredients, migration>>
           ELSE /\ pc' = pc
                /\ ingredients' = [ingredients EXCEPT !.edges[Min(es)].w = TRUE]
                /\ migration' = [migration EXCEPT !.materialize =
                                     InsertIfUnset(@, src, dst, ingredients.edges[Min(es)].w)]
    /\ ret' = "none"
    /\ UNCHANGED <<ndomains, checktable, txs, in_txs, domains, VIEW_READERS, active, commit,
                   nmig, ranges, published, finalized, writes, processed, snapshot, shutdown,
                   exited, tokens, handed, blender, backlog, lookup>>

\* the Migration goes out of scope without commit: it has no destructor, the
\* borrow of the Blender ends and nothing else happens
discard ==
    /\ Building
    /\ active' = active - 1
    /\ migration' = EmptyMigration
    /\ pc' = "idle"
    /\ ret' = "none"
    /\ UNCHANGED <<ingredients, ndomains, checktable, txs, in_txs, domains, VIEW_READERS,
                   commit, nmig, ranges, published, finalized, writes, processed, snapshot,
                   shutdown, exited, tokens, handed,
                   blender, backlog, lookup>>

\* ---------------------------------------------------------------- commit
DomainOf(g, n) == g.nodes[n].domain

\* Node::add_to
add_to(g, n, d) == [g EXCEPT !.nodes[n].domain = d]

RECURSIVE AddAllTo(_, _, _)
AddAllTo(g, ns, dom) ==
    IF ns = {} THEN g
    ELSE LET n == Min(ns) IN AddAllTo(add_to(g, n, dom[n]), ns \ {n}, dom)

\* The orders in which the loop over the added map can meet the unassigned nodes
\* (a HashMap iterates in no fixed order): each gets the next fresh index
Allocations(unassigned, first) ==
    {f \in [unassigned -> first..(first + Cardinality(unassigned) - 1)] :
        \A a, b \in unassigned : a # b => f[a] # f[b]}

\* Make sure all new nodes are assigned to a domain
AssignAdded(g, added, alloc) ==
    AddAllTo(g, DOMAIN added,
             [n \in DOMAIN added |-> IF added[n] = None THEN alloc[n] ELSE added[n]])

\* Readers are assigned the same domain as their parents
ReadersInFirstDomain(g, readers) ==
    AddAllTo(g, Range(readers), [r \in Range(readers) |-> 0])

AssignReaders(g, readers) ==
    AddAllTo(g, Range(readers),
             [r \in Range(readers) |->
                 DomainOf(g, CHOOSE p \in DOMAIN readers : readers[p] = r)])

\* migrate::routing::add
IngressFor(g, p, d) ==
    {i \in NodeIds(g) :
        /\ g.nodes[i].type = "Ingress"
        /\ DomainOf(g, i) = d
        /\ IF p = Source THEN find_edge(g, Source, i) # {}
           ELSE \E e \in NodeIds(g) : /\ g.nodes[e].type = "Egress"
                                      /\ find_edge(g, p, e) # {}
                                      /\ find_edge(g, e, i) # {}}

EgressFor(g, p) ==
    {e \in NodeIds(g) : g.nodes[e].type = "Egress" /\ find_edge(g, p, e) # {}}

NeedsRouting(g, new, e) ==
    /\ e.dst \in new
    /\ g.nodes[e.dst].type # "Ingress"
    /\ e.src = Source \/ DomainOf(g, e.src) # DomainOf(g, e.dst)

WithEgress(r, p) ==
    IF p = Source \/ EgressFor(r.g, p) # {} THEN r
    ELSE LET e == Len(r.g.nodes) + 1
             g1 == add_node(r.g, mirror(r.g.nodes[p], "Egress"))
         IN  [g |-> add_edge(add_to(g1, e, DomainOf(r.g, p)), p, e, FALSE),
              new |-> r.new \cup {e}]

WithIngress(r, p, d) ==
    IF IngressFor(r.g, p, d) # {} THEN r
    ELSE LET i == Len(r.g.nodes) + 1
             from == IF p = Source THEN Source ELSE Min(EgressFor(r.g, p))
             g1 == add_node(r.g, mirror(r.g.nodes[p], "Ingress"))
         IN  [g |-> add_edge(add_to(g1, i, d), from, i, FALSE), new |-> r.new \cup {i}]

\* (a value bound by CHOOSE over a singleton is computed once)
RouteEdge(r, k) ==
    LET e == r.g.edges[k]
        d == DomainOf(r.g, e.dst)
    IN  CHOOSE res \in
            {[r2 EXCEPT !.g.edges[k].src = Min(IngressFor(r2.g, e.src, d))] :
                r2 \in {WithIngress(r1, e.src, d) : r1 \in {WithEgress(r, e.src)}}} : TRUE

RECURSIVE RoutingFrom(_, _, _)
RoutingFrom(r, k, last) ==
    IF k > last THEN r
    ELSE CHOOSE res \in
            {RoutingFrom(IF NeedsRouting(x.g, x.new, x.g.edges[k]) THEN RouteEdge(x, k) ELSE x,
                         k + 1, last) : x \in {r}} : TRUE

routing_add(g, new) == RoutingFrom([g |-> g, new |-> new], 1, Len(g.edges))

\* Node::domain() of a node that has none is fatal
Unassigned(g) == {n \in NodeIds(g) \ {Source} : DomainOf(g, n) = None}

\* domain_nodes: the nodes of each domain, in node index order
DomainNodes(g, d) == {n \in NodeIds(g) \ {Source} : DomainOf(g, n) = d}

DomainsOf(g) == {DomainOf(g, n) : n \in NodeIds(g) \ {Source}}

\* Number of pre-existing nodes
NumberFromZero(g, new, d) == 0

PreExisting(g, new, d) == Cardinality(DomainNodes(g, d) \ new)

\* Give local addresses to every (new) node
NewNodesFirst(g, new, n) ==
    IF n \in new
    THEN Cardinality({m \in DomainNodes(g, DomainOf(g, n)) \cap new : m < n})
    ELSE g.nodes[n].addr + Cardinality(DomainNodes(g, DomainOf(g, n)) \cap new)

LocalAddr(g, new, n) ==
    IF n \in new
    THEN PreExisting(g, new, DomainOf(g, n))
         + Cardinality({m \in DomainNodes(g, DomainOf(g, n)) \cap new : m < n})
    ELSE g.nodes[n].addr

set_addrs(g, new) ==
    [g EXCEPT !.nodes = [n \in NodeIds(g) |->
        IF n = Source THEN g.nodes[n] ELSE [g.nodes[n] EXCEPT !.addr = LocalAddr(g, new, n)]]]

\* the set `new` commit hands to the routing pass: every added node and every
\* Reader made in the migration
NewNodesReadersOnly(m) == Range(m.readers)

NewNodes(m) == DOMAIN m.added \cup Range(m.readers)

\* the steps of commit() in program order; pc names the step to run next
FinalizeBeforeReplayPaths == <<"assign", "perform_migration", "boot", "columns", "connect",
                               "finalize", "replay_paths", "return">>

CommitSteps == <<"assign", "perform_migration", "boot", "columns", "connect", "replay_paths",
                 "finalize", "return">>

StepAfter(step) ==
    CommitSteps[(CHOOSE i \in 1..Len(CommitSteps) : CommitSteps[i] = step) + 1]

\* commit(), from its start to the initialisation of the new nodes
commit_assign ==
    /\ Building
    /\ LET added == migration.added
           unassigned == {n \in DOMAIN added : added[n] = None}
       IN \E alloc \in Allocations(unassigned, ndomains) :
          \E g1 \in {AssignAdded(ingredients, added, alloc)} :
          LET orphan == \E p \in DOMAIN migration.readers : DomainOf(g1, p) = None
          IN  \E g2 \in {IF orphan THEN g1 ELSE AssignReaders(g1, migration.readers)} :
              \E r \in {routing_add(g2, NewNodes(migration))} :
              LET rxs == DomainsOf(r.g) \ DOMAIN txs
              IN  /\ ndomains' = ndomains + Cardinality(unassigned)
                  /\ handed' = handed \o SetToSeq(Range(alloc))
                  /\ IF orphan \/ Unassigned(r.g) # {}
                     THEN /\ ingredients' = IF orphan THEN g2 ELSE r.g
                          /\ pc' = "commit_panicked"
                          /\ UNCHANGED <<txs, in_txs, commit, published>>
                     ELSE /\ ingredients' = set_addrs(r.g, r.new)
                          /\ txs' = txs @@ [d \in rxs |-> <<>>]
                          /\ in_txs' = in_txs @@ [d \in rxs |-> <<>>]
                          /\ published' = published @@ [d \in rxs |-> <<>>]
                          /\ commit' = [NoCommit EXCEPT
                                !.new = r.new, !.rxs = rxs, !.todo = DOMAIN txs \cup rxs,
                                !.changed_domains = {DomainOf(r.g, n) : n \in r.new}]
                          /\ pc' = StepAfter("assign")
    /\ UNCHANGED <<checktable, domains, VIEW_READERS, active, migration, nmig, ranges,
                   finalized, writes, processed, snapshot, shutdown, exited, tokens,
                   blender, backlog, lookup>>
    /\ ret' = "none"

\* CheckTable::perform_migration: reserves [start_ts, end_ts]; no timestamp is
\* handed out until the migration is finalized
perform_migration(ct) ==
    [ct EXCEPT !.next_timestamp = @ + MigrationSpan, !.migrating = TRUE]

\* mainline.checktable.lock().unwrap().perform_migration(..): on the shared table
MigrationOnCopy(ct, result) == ct

LockedCheckTable(ct, result) == result

commit_perform_migration ==
    /\ pc = "perform_migration"
    /\ checktable' = LockedCheckTable(checktable, perform_migration(checktable))
    /\ commit' = [commit EXCEPT !.start_ts = checktable.next_timestamp,
                                !.end_ts = checktable.next_timestamp + MigrationSpan - 1]
    /\ ranges' = Append(ranges, <<checktable.next_timestamp,
                                  checktable.next_timestamp + MigrationSpan - 1>>)
    /\ pc' = StepAfter("perform_migration")
    /\ UNCHANGED <<ingredients, ndomains, txs, in_txs, domains, VIEW_READERS, active, migration,
                   nmig, published, finalized, writes, processed, snapshot, ret, shutdown,
                   exited, tokens, handed,
                   blender, backlog, lookup>>

\* booting::boot_new for the new domains, augmentation::inform for the others:
\* the new nodes now belong to their domain's worker
BootsEveryChanged(changed_domains, rxs) == changed_domains

\* if !rxs.contains_key(&domain) { continue; }  -- this is not a new domain
NewlyBooted(changed_domains, rxs) == changed_domains \cap rxs

commit_boot ==
    /\ pc = "boot"
    /\ domains' = domains \o SetToSeq(NewlyBooted(commit.changed_domains, commit.rxs))
    /\ ingredients' = [ingredients EXCEPT !.nodes = [n \in NodeIds(ingredients) |->
            IF n \in commit.new THEN [ingredients.nodes[n] EXCEPT !.taken = TRUE]
            ELSE ingredients.nodes[n]]]
    /\ commit' = [commit EXCEPT !.rxs = {}]
    /\ pc' = StepAfter("boot")
    /\ UNCHANGED <<ndomains, checktable, txs, in_txs, VIEW_READERS, active, migration, nmig,
                   ranges, published, finalized, writes, processed, snapshot, ret, shutdown,
                   exited, tokens, handed,
                   blender, backlog, lookup>>

\* for ack in acks { ack.recv().is_err(); }: every receiver has got its ack or
\* has seen its sender go away
ConnectsAtOnce(acks) == TRUE

AllAcked(acks) == \A i \in 1..Len(acks) : acks[i].status # "pending"

\* Tell all base nodes about newly added columns: one packet per column change,
\* in the order of the changes, then wait for all domains to ack
commit_columns ==
    /\ pc = "columns"
    /\ LET k == Len(commit.acks) + 1
       IN  IF k <= Len(migration.columns)
           THEN LET n == migration.columns[k][1]
                    change == migration.columns[k][2]
                    d == DomainOf(ingredients, n)
                IN  IF d \notin DOMAIN txs \/ d \in exited
                    THEN /\ pc' = "commit_panicked"
                         /\ UNCHANGED <<txs, commit>>
                    ELSE /\ Len(txs[d]) < ControlCap
                         /\ txs' = [txs EXCEPT ![d] = Append(@,
                               [type |-> IF change.change = "Add" THEN "AddBaseColumn"
                                         ELSE "DropBaseColumn",
                                node |-> ingredients.nodes[n].addr, ack |-> k])]
                         /\ commit' = [commit EXCEPT !.acks = Append(@,
                               [node |-> n, change |-> change, domain |-> d,
                                status |-> "pending"])]
                         /\ pc' = pc
           ELSE /\ AllAcked(commit.acks)
                /\ pc' = StepAfter("columns")
                /\ UNCHANGED <<txs, commit>>
    /\ UNCHANGED <<ingredients, ndomains, checktable, in_txs, domains, VIEW_READERS, active,
                   migration, nmig, ranges, published, finalized, writes, processed, snapshot,
                   ret, shutdown, exited, tokens, handed,
                   blender, backlog, lookup>>

\* routing::connect and materialization::initialize
commit_connect ==
    /\ pc = "connect"
    /\ pc' = StepAfter("connect")
    /\ UNCHANGED <<ingredients, ndomains, checktable, txs, in_txs, domains, VIEW_READERS,
                   active, migration, commit, nmig, ranges, published, finalized, writes,
                   processed, snapshot, ret, shutdown, exited, tokens, handed,
                   blender, backlog, lookup>>

\* checktable.add_replay_paths(domains_on_path)
commit_replay_paths ==
    /\ pc = "replay_paths"
    /\ commit' = [commit EXCEPT !.replay_paths = TRUE]
    /\ pc' = StepAfter("replay_paths")
    /\ UNCHANGED <<ingredients, ndomains, checktable, txs, in_txs, domains, VIEW_READERS,
                   active, migration, nmig, ranges, published, finalized, writes, processed,
                   snapshot, ret, shutdown, exited, tokens, handed,
                   blender, backlog, lookup>>

\* transactions::finalize: end_ts goes to every domain over its control channel
commit_finalize(d) ==
    /\ pc = "finalize"
    /\ d \in commit.todo
    /\ Len(txs[d]) < ControlCap
    /\ txs' = [txs EXCEPT ![d] = Append(@, [type |-> "CompleteMigration", node |-> commit.end_ts])]
    /\ published' = [published EXCEPT ![d] = Append(@, [at |-> commit.end_ts,
                                                        replay_paths |-> commit.replay_paths])]
    /\ commit' = [commit EXCEPT !.todo = @ \ {d}]
    /\ UNCHANGED <<ingredients, ndomains, checktable, in_txs, domains, VIEW_READERS, active,
                   migration, pc, nmig, ranges, finalized, writes, processed, snapshot, ret,
                   shutdown, exited, tokens, handed,
                   blender, backlog, lookup>>

\* finalize is over once every domain was told: timestamps are handed out again
commit_finalized ==
    /\ pc = "finalize"
    /\ commit.todo = {}
    /\ checktable' = [checktable EXCEPT !.migrating = FALSE]
    /\ finalized' = Append(finalized, commit.end_ts)
    /\ commit' = [commit EXCEPT !.start_ts = None]
    /\ pc' = StepAfter("finalize")
    /\ UNCHANGED <<ingredients, ndomains, txs, in_txs, domains, VIEW_READERS, active, migration,
                   nmig, ranges, published, writes, processed, snapshot, ret, shutdown, exited,
                   tokens, handed,
                   blender, backlog, lookup>>

\* commit returns: the Migration is gone
commit_return ==
    /\ pc = "return"
    /\ active' = active - 1
    /\ migration' = EmptyMigration
    /\ commit' = NoCommit
    /\ pc' = "idle"
    /\ UNCHANGED <<ingredients, ndomains, checktable, txs, in_txs, domains, VIEW_READERS, nmig,
                   ranges, published, finalized, writes, processed, snapshot, ret, shutdown,
                   exited, tokens, handed,
                   blender, backlog, lookup>>

\* ------------------------------------------------------------ domain worker
\* the worker takes the next packet off its control channel
\* the worker answers on the ack channel of the packet, a sync_channel(1) of its
\* own: the one message it ever carries fits, whatever the caller is doing (with
\* no buffer the send would wait for the caller to be receiving this very ack)
CanAck(k) ==
    \/ AckCap > 0
    \/ /\ Len(commit.acks) = Len(migration.columns)
       /\ \A j \in 1..(k - 1) : commit.acks[j].status # "pending"

domain_recv(d) ==
    /\ d \in Range(domains) \ exited
    /\ txs[d] # <<>>
    /\ Head(txs[d]).type \in {"AddBaseColumn", "DropBaseColumn"} => CanAck(Head(txs[d]).ack)
    /\ txs' = [txs EXCEPT ![d] = Tail(@)]
    /\ commit' = IF Head(txs[d]).type \in {"AddBaseColumn", "DropBaseColumn"}
                 THEN [commit EXCEPT !.acks[Head(txs[d]).ack].status = "acked"]
                 ELSE commit
    /\ exited' = IF Head(txs[d]).type = "Quit" THEN exited \cup {d} ELSE exited
    /\ UNCHANGED <<ingredients, ndomains, checktable, in_txs, domains, VIEW_READERS, active,
                   migration, pc, nmig, ranges, published, finalized, writes, processed,
                   snapshot, ret, shutdown, tokens, handed,
                   blender, backlog, lookup>>

\* the worker installs the read handle of a keyed Reader when the Reader's
\* materialization is initialised
Registered(vr) == {e[1] : e \in vr}

\* HashMap::insert on the registry: one entry per key
vr_insert(vr, r, h) == {e \in vr : e[1] # r} \cup {<<r, h>>}

Materialized(r) ==
    /\ ingredients.nodes[r].type = "Reader"
    /\ ingredients.nodes[r].taken
    /\ ingredients.nodes[r].state # None
    /\ r \in commit.new => pc \in {"replay_paths", "finalize", "return"}

\* materialization::initialize with partial_enabled (true by default): the index
\* of a new partial materialization is empty, every key is a hole
EmptyIndex == [q \in Queries |-> None]

register_handle(r) ==
    /\ Materialized(r)
    /\ ~\E e \in VIEW_READERS : e[1] = r /\ e[2].owner = blender
    /\ VIEW_READERS' = vr_insert(VIEW_READERS, r,
                                 [domain |-> DomainOf(ingredients, r),
                                  addr |-> ingredients.nodes[r].addr,
                                  owner |-> blender])
    /\ backlog' = (r :> EmptyIndex) @@ backlog
    /\ UNCHANGED <<ingredients, ndomains, checktable, txs, in_txs, domains, active, migration,
                   pc, commit, nmig, ranges, published, finalized, writes, processed, snapshot,
                   ret, shutdown, exited, tokens, handed, blender, lookup>>

\* the worker takes the next write off its input channel
domain_process(d) ==
    /\ d \in Range(domains)
    /\ in_txs[d] # <<>>
    /\ in_txs' = [in_txs EXCEPT ![d] = Tail(@)]
    /\ processed' = processed \cup {[ts |-> Head(in_txs[d]), start |-> commit.start_ts]}
    /\ UNCHANGED <<ingredients, ndomains, checktable, txs, domains, VIEW_READERS, active,
                   migration, pc, commit, nmig, ranges, published, finalized, writes, snapshot,
                   ret, shutdown, exited, tokens, handed,
                   blender, backlog, lookup>>

\* ------------------------------------------------------------------ Mutator
\* CheckTable hands the next timestamp to a transactional base write, unless a
\* migration holds the table
claim_timestamp(ct) == [ct EXCEPT !.next_timestamp = @ + 1]

\* the table keeps, per base, the timestamp of the last write committed to it
saw_write(ct, b, ts) == [ct EXCEPT !.last = (b :> ts) @@ @]

LastWrite(ct, b) == IF b \in DOMAIN ct.last THEN ct.last[b] ELSE 0

\* a write through a Mutator obtained (get_mutator) before the running migration
mutator_put(b) ==
    /\ ingredients.nodes[b].type = "Base"
    /\ ingredients.nodes[b].transactional
    /\ ingredients.nodes[b].taken
    /\ b \notin commit.new
    /\ Cardinality(writes) < MaxWrites
    /\ ~checktable.migrating
    /\ Len(in_txs[DomainOf(ingredients, b)]) < InputCap
    /\ checktable' = saw_write(claim_timestamp(checktable), b, checktable.next_timestamp)
    /\ writes' = writes \cup {[ts |-> checktable.next_timestamp, base |-> b,
                               finalized |-> Len(finalized), at |-> pc]}
    /\ in_txs' = [in_txs EXCEPT ![DomainOf(ingredients, b)] =
                     Append(@, checktable.next_timestamp)]
    /\ UNCHANGED <<ingredients, ndomains, txs, domains, VIEW_READERS, active, migration, pc,
                   commit, nmig, ranges, published, finalized, processed, snapshot, ret,
                   shutdown, exited, tokens, handed,
                   blender, backlog, lookup>>

\* ------------------------------------------------------------------ queries
\* petgraph walks the edges of a node from the most recently added one
RECURSIVE Descending(_)
Descending(S) == IF S = {} THEN <<>> ELSE <<Max(S)>> \o Descending(S \ {Max(S)})

neighbors_directed(g, n) ==
    LET out == Descending({j \in 1..Len(g.edges) : g.edges[j].src = n})
    IN  [i \in 1..Len(out) |-> g.edges[out[i]].dst]

RECURSIVE flat_map(_, _)
flat_map(g, ns) ==
    IF ns = <<>> THEN <<>> ELSE neighbors_directed(g, Head(ns)) \o flat_map(g, Tail(ns))

\* Blender::inputs: the bases among the children of the children of the source
InputsBelowSource(g) ==
    LET is_base(n) == g.nodes[n].type = "Base"
    IN  SelectSeq(neighbors_directed(g, Source), is_base)

inputs(g) ==
    LET is_base(n) == g.nodes[n].type = "Base"
    IN  SelectSeq(flat_map(g, neighbors_directed(g, Source)), is_base)

\* reader should be a child of the given node: .filter(..).next()
first_reader(g, n) ==
    LET is_reader(c) == g.nodes[c].type = "Reader"
        rs == SelectSeq(neighbors_directed(g, n), is_reader)
    IN  IF rs = <<>> THEN None ELSE Head(rs)

\* Blender::get_getter: the Reader whose handle the returned closure holds, or
\* None
get_getter(g, vr, n) ==
    LET r == first_reader(g, n)
    IN  IF r # None /\ r \in Registered(vr) THEN r ELSE None

\* Blender::get_transactional_getter: Ok with the Reader, Err(()), or the panic of
\* token_generator.clone().unwrap()
GetterWithoutFlagCheck(g, vr, n) ==
    LET r == first_reader(g, n)
    IN  IF r = None \/ r \notin Registered(vr) THEN [kind |-> "Err", reader |-> None]
        ELSE IF ~g.nodes[r].token_generator THEN [kind |-> "Panic", reader |-> r]
        ELSE [kind |-> "Ok", reader |-> r]

get_transactional_getter(g, vr, n) ==
    LET r == first_reader(g, n)
    IN  IF ~g.nodes[n].transactional THEN [kind |-> "Err", reader |-> None]
        ELSE IF r = None \/ r \notin Registered(vr) THEN [kind |-> "Err", reader |-> None]
        ELSE IF ~g.nodes[r].token_generator THEN [kind |-> "Panic", reader |-> r]
        ELSE [kind |-> "Ok", reader |-> r]

\* the bases a node's rows come from
RECURSIVE Bases(_, _)
Bases(g, n) ==
    IF g.nodes[n].type = "Base" THEN {n}
    ELSE UNION {Bases(g, p) : p \in g.nodes[n].parents}

\* the timestamp the read handle of a Reader carries: that of the last write its
\* domain has applied
Applied(d) ==
    {w.ts : w \in {x \in writes : /\ DomainOf(ingredients, x.base) = d
                                   /\ \E q \in processed : q.ts = x.ts}}

ReadTs(r) == Max(Applied(DomainOf(ingredients, r)) \cup {0})

\* TokenGenerator::generate(ts, q): the bases the generator tracks, each with the
\* timestamp of the read
generate(g, r, ts) == [bases |-> Bases(g, ReaderParentOf(g, r)), ts |-> ts]

\* .map(|(res, ts)| generator.generate(ts, q.clone())): the token carries the
\* timestamp find_and returned with the rows
TokenWithoutReadTs(g, r, ts) == generate(g, r, 0)

read_token(g, r, ts) == generate(g, r, ts)

\* every write issued so far to a base of the Reader has reached the Reader
ReflectsAllWrites(g, r) ==
    \A w \in writes : w.base \in Bases(g, ReaderParentOf(g, r)) =>
        \E q \in processed : q.ts = w.ts

\* CheckTable::validate_token
validate_token(ct, t) == \A b \in t.bases : LastWrite(ct, b) <= t.ts

\* get_validator: the closure validates against the table the Blender shares
get_validator(t) == validate_token(checktable, t)

\* a read through the closure get_transactional_getter returned
transactional_read(n) ==
    /\ pc = "idle"
    /\ Cardinality(tokens) < MaxTokens
    /\ LET res == get_transactional_getter(ingredients, VIEW_READERS, n)
       IN  /\ res.kind = "Ok"
           /\ tokens' = tokens \cup
                 {[token |-> read_token(ingredients, res.reader, ReadTs(res.reader)),
                   at |-> checktable.next_timestamp,
                   fresh |-> ReflectsAllWrites(ingredients, res.reader)]}
    /\ UNCHANGED <<ingredients, ndomains, checktable, txs, in_txs, domains, VIEW_READERS, active,
                   migration, pc, commit, nmig, ranges, published, finalized, writes, processed,
                   snapshot, ret, shutdown, exited, handed, blender, backlog, lookup>>

\* ReadHandle::find_and(q, then, block): the rows under the key, nothing for a
\* key that is a hole, and with block a wait for the hole to be filled
find_and(index, q, block) ==
    [waits |-> block /\ index[q] = None, found |-> index[q]]

\* .map(|r| r.0.unwrap_or_else(Vec::new)): no rows for a key that was not found
unwrap_or_else(found) == IF found = None THEN 0 ELSE found

\* the closure get_getter returns: it hands q and block to the read handle
GetterAlwaysBlocking(index, q, block) ==
    LET res == find_and(index, q, TRUE)
    IN  IF res.waits THEN [status |-> "waiting", rows |-> None]
        ELSE [status |-> "returned", rows |-> unwrap_or_else(res.found)]

getter_closure(index, q, block) ==
    LET res == find_and(index, q, block)
    IN  IF res.waits THEN [status |-> "waiting", rows |-> None]
        ELSE [status |-> "returned", rows |-> unwrap_or_else(res.found)]

\* a call of the closure get_getter(n) returned
getter_call(n, q, block) ==
    /\ pc = "idle"
    /\ Cardinality(lookup) < MaxLookups
    /\ get_getter(ingredients, VIEW_READERS, n) # None
    /\ LET r == get_getter(ingredients, VIEW_READERS, n)
           res == getter_closure(backlog[r], q, block)
       IN  lookup' = lookup \cup {[reader |-> r, key |-> q, block |-> block,
                                   missed |-> backlog[r][q] = None,
                                   status |-> res.status, rows |-> res.rows]}
    /\ UNCHANGED <<ingredients, ndomains, checktable, txs, in_txs, domains, VIEW_READERS, active,
                   migration, pc, commit, nmig, ranges, published, finalized, writes, processed,
                   snapshot, ret, shutdown, exited, tokens, handed, blender, backlog>>

\* the domain replays a key a lookup has missed: the hole is filled with the rows
\* the ancestors hold under the key
replay(r, q, rows) ==
    /\ r \in DOMAIN backlog
    /\ backlog[r][q] = None
    /\ \E l \in lookup : l.reader = r /\ l.key = q /\ l.missed
    /\ backlog' = [backlog EXCEPT ![r][q] = rows]
    /\ UNCHANGED <<ingredients, ndomains, checktable, txs, in_txs, domains, VIEW_READERS, active,
                   migration, pc, commit, nmig, ranges, published, finalized, writes, processed,
                   snapshot, ret, shutdown, exited, tokens, handed, blender, lookup>>

\* a waiting find_and sees its key filled and returns the rows
getter_return(l) ==
    /\ l \in lookup
    /\ l.status = "waiting"
    /\ backlog[l.reader][l.key] # None
    /\ lookup' = (lookup \ {l}) \cup
                    {[l EXCEPT !.status = "returned",
                               !.rows = unwrap_or_else(backlog[l.reader][l.key])]}
    /\ UNCHANGED <<ingredients, ndomains, checktable, txs, in_txs, domains, VIEW_READERS, active,
                   migration, pc, commit, nmig, ranges, published, finalized, writes, processed,
                   snapshot, ret, shutdown, exited, tokens, handed, blender, backlog>>

\* ----------------------------------------------------------- Drop for Blender
\* the Blender goes out of scope (no Migration borrows it)
drop_blender ==
    /\ pc = "idle"
    /\ ExclusiveBorrow
    /\ pc' = "dropping"
    /\ UNCHANGED <<ingredients, ndomains, checktable, txs, in_txs, domains, VIEW_READERS, active,
                   migration, commit, nmig, ranges, published, finalized, writes, processed,
                   snapshot, ret, shutdown, exited, tokens, handed,
                   blender, backlog, lookup>>

\* drop(tx.send(Quit)): don't unwrap, the domain may already have terminated
UnwrapSend(outcome) == IF outcome = "failed" THEN "panicked" ELSE "dropping"

IgnoreSendError(outcome) == "dropping"

drop_quit ==
    /\ pc = "dropping"
    /\ IF DOMAIN shutdown.quit = DOMAIN txs
       THEN /\ pc' = "joining"
            /\ UNCHANGED <<txs, shutdown>>
       ELSE \E d \in DOMAIN txs \ DOMAIN shutdown.quit :
               IF d \in exited \/ d \notin Range(domains)
               THEN /\ shutdown' = [shutdown EXCEPT !.quit = @ @@ (d :> "failed")]
                    /\ pc' = IgnoreSendError("failed")
                    /\ txs' = txs
               ELSE /\ Len(txs[d]) < ControlCap
                    /\ txs' = [txs EXCEPT ![d] = Append(@, [type |-> "Quit", node |-> None])]
                    /\ shutdown' = [shutdown EXCEPT !.quit = @ @@ (d :> "sent")]
                    /\ pc' = IgnoreSendError("sent")
    /\ UNCHANGED <<ingredients, ndomains, checktable, in_txs, domains, VIEW_READERS, active,
                   migration, commit, nmig, ranges, published, finalized, writes, processed,
                   snapshot, ret, exited, tokens, handed,
                   blender, backlog, lookup>>

\* for d in self.domains.drain(..) { d.join().unwrap(); }
drop_join ==
    /\ pc = "joining"
    /\ IF Len(shutdown.joined) = Len(domains)
       THEN /\ pc' = "dropped"
            /\ shutdown' = shutdown
       ELSE /\ domains[Len(shutdown.joined) + 1] \in exited
            /\ shutdown' = [shutdown EXCEPT !.joined = Append(@, domains[Len(@) + 1])]
            /\ pc' = pc
    /\ UNCHANGED <<ingredients, ndomains, checktable, txs, in_txs, domains, VIEW_READERS, active,
                   migration, commit, nmig, ranges, published, finalized, writes, processed,
                   snapshot, ret, exited, tokens, handed,
                   blender, backlog, lookup>>

\* a worker that returns on its own while the Blender is being dropped
domain_terminates(d) ==
    /\ pc = "dropping"
    /\ d \in Range(domains) \ exited
    /\ d \notin DOMAIN shutdown.quit
    /\ exited' = exited \cup {d}
    /\ UNCHANGED <<ingredients, ndomains, checktable, txs, in_txs, domains, VIEW_READERS, active,
                   migration, pc, commit, nmig, ranges, published, finalized, writes, processed,
                   snapshot, ret, shutdown, tokens, handed,
                   blender, backlog, lookup>>

\* Blender::new in a process whose earlier Blender was dropped: VIEW_READERS is a
\* static of the process and Drop for Blender does not touch it, so the entries
\* and the read handles they hold are still there
new_blender ==
    /\ pc = "dropped"
    /\ blender < MaxBlenders
    /\ blender' = blender + 1
    /\ ingredients' = [nodes |-> <<NewNode("Source", TRUE, {})>>, edges |-> <<>>]
    /\ ndomains' = 0
    /\ checktable' = [next_timestamp |-> 1, migrating |-> FALSE, last |-> <<>>]
    /\ txs' = <<>>
    /\ in_txs' = <<>>
    /\ domains' = <<>>
    /\ active' = 0
    /\ migration' = EmptyMigration
    /\ pc' = "idle"
    /\ commit' = NoCommit
    /\ nmig' = 0
    /\ ranges' = <<>>
    /\ published' = <<>>
    /\ finalized' = <<>>
    /\ writes' = {}
    /\ processed' = {}
    /\ snapshot' = [ingredients |-> ingredients', ndomains |-> 0]
    /\ ret' = "none"
    /\ shutdown' = [quit |-> <<>>, joined |-> <<>>]
    /\ exited' = {}
    /\ tokens' = {}
    /\ handed' = <<>>
    /\ lookup' = {}
    /\ UNCHANGED <<VIEW_READERS, backlog>>

Operators == {n \in NodeIds(ingredients) : IsOperator(ingredients, n)}

Next ==
    \/ start_migration
    \/ add_domain
    \/ \E ps \in SUBSET Operators : Cardinality(ps) <= MaxParents /\ add_ingredient(ps)
    \/ add_transactional_base
    \/ \E n \in Operators, d \in 0..(ndomains - 1) : assign_domain(n, d)
    \/ \E n \in Operators, key \in Keys : maintain(n, key)
    \/ \E n \in Operators : stream(n)
    \/ \E n \in Operators, connected \in BOOLEAN : memcached_hook(n, connected)
    \/ commit_assign
    \/ commit_perform_migration
    \/ commit_boot
    \/ commit_columns
    \/ commit_connect
    \/ commit_replay_paths
    \/ \E d \in DOMAIN txs : commit_finalize(d)
    \/ commit_finalized
    \/ commit_return
    \/ \E d \in DOMAIN txs : domain_recv(d)
    \/ \E r \in NodeIds(ingredients) : register_handle(r)

Spec == Init /\ [][Next]_vars

\* the timestamp protocol: migrations of transactional bases, with writes through
\* earlier mutators running beside them
NextTx ==
    \/ start_migration
    \/ add_transactional_base
    \/ commit_assign
    \/ commit_perform_migration
    \/ commit_boot
    \/ commit_columns
    \/ commit_connect
    \/ commit_replay_paths
    \/ \E d \in DOMAIN txs : commit_finalize(d)
    \/ commit_finalized
    \/ commit_return
    \/ \E d \in DOMAIN txs : domain_recv(d)
    \/ \E d \in DOMAIN in_txs : domain_process(d)
    \/ \E b \in NodeIds(ingredients) : mutator_put(b)

SpecTx == Init /\ [][NextTx]_vars

\* migrations that are built and then given up: the Migration is dropped instead
\* of committed
NextDiscard ==
    \/ start_migration
    \/ add_domain
    \/ add_ingredient({})
    \/ add_transactional_base
    \/ \E n \in Operators : add_column(n)
    \/ \E n \in Operators : \E c \in 0..(ingredients.nodes[n].fields - 1) : drop_column(n, c)
    \/ \E src \in NodeIds(ingredients), dst \in Operators : materialize(src, dst)
    \/ \E n \in Operators, key \in Keys : maintain(n, key)
    \/ \E n \in Operators : stream(n)
    \/ discard

SpecDiscard == Init /\ [][NextDiscard]_vars

\* schema changes of running bases
NextCol ==
    \/ start_migration
    \/ \E ps \in SUBSET Operators : Cardinality(ps) <= MaxParents /\ add_ingredient(ps)
    \/ \E n \in Operators : add_column(n)
    \/ \E n \in Operators : \E c \in 0..(ingredients.nodes[n].fields - 1) : drop_column(n, c)
    \/ commit_assign
    \/ commit_perform_migration
    \/ commit_boot
    \/ commit_columns
    \/ commit_connect
    \/ commit_replay_paths
    \/ \E d \in DOMAIN txs : commit_finalize(d)
    \/ commit_finalized
    \/ commit_return
    \/ \E d \in DOMAIN txs : domain_recv(d)

SpecCol == Init /\ [][NextCol]_vars

\* the same, with a caller thread that runs on and workers that keep taking packets
\* off their control channels
SpecColLive ==
    /\ Init
    /\ [][NextCol]_vars
    /\ WF_vars(commit_perform_migration)
    /\ WF_vars(commit_boot)
    /\ WF_vars(commit_columns)
    /\ WF_vars(commit_connect)
    /\ WF_vars(commit_replay_paths)
    /\ WF_vars(\E d \in DOMAIN txs : commit_finalize(d))
    /\ WF_vars(commit_finalized)
    /\ WF_vars(commit_return)
    /\ WF_vars(\E d \in DOMAIN txs : domain_recv(d))

\* the life of a Blender up to its drop; the caller thread runs on and every
\* worker keeps taking packets off its control channel
NextDrop ==
    \/ start_migration
    \/ add_transactional_base
    \/ commit_assign
    \/ commit_perform_migration
    \/ commit_boot
    \/ commit_columns
    \/ commit_connect
    \/ commit_replay_paths
    \/ \E d \in DOMAIN txs : commit_finalize(d)
    \/ commit_finalized
    \/ commit_return
    \/ \E d \in DOMAIN txs : domain_recv(d)
    \/ \E d \in DOMAIN txs : domain_terminates(d)
    \/ drop_blender
    \/ drop_quit
    \/ drop_join

SpecDrop ==
    /\ Init
    /\ [][NextDrop]_vars
    /\ WF_vars(drop_quit)
    /\ WF_vars(drop_join)
    /\ WF_vars(\E d \in DOMAIN txs : domain_recv(d))

\* transactional reads beside the writes
NextTok ==
    \/ start_migration
    \/ add_transactional_base
    \/ \E n \in Operators, key \in Keys : maintain(n, key)
    \/ commit_assign
    \/ commit_perform_migration
    \/ commit_boot
    \/ commit_columns
    \/ commit_connect
    \/ commit_replay_paths
    \/ \E d \in DOMAIN txs : commit_finalize(d)
    \/ commit_finalized
    \/ commit_return
    \/ \E d \in DOMAIN txs : domain_recv(d)
    \/ \E r \in NodeIds(ingredients) : register_handle(r)
    \/ \E d \in DOMAIN in_txs : domain_process(d)
    \/ \E b \in NodeIds(ingredients) : mutator_put(b)
    \/ \E n \in Operators : transactional_read(n)

SpecTok == Init /\ [][NextTok]_vars

\* forced materializations, before and after the routing pass of a commit
NextMat ==
    \/ start_migration
    \/ \E ps \in SUBSET Operators : Cardinality(ps) <= 1 /\ add_ingredient(ps)
    \/ \E src \in NodeIds(ingredients), dst \in Operators : materialize(src, dst)
    \/ commit_assign
    \/ commit_perform_migration
    \/ commit_boot
    \/ commit_columns
    \/ commit_connect
    \/ commit_replay_paths
    \/ \E d \in DOMAIN txs : commit_finalize(d)
    \/ commit_finalized
    \/ commit_return
    \/ \E d \in DOMAIN txs : domain_recv(d)

SpecMat == Init /\ [][NextMat]_vars

\* Readers that are keyed, keyed again and streamed from
NextKey ==
    \/ start_migration
    \/ add_ingredient({})
    \/ add_transactional_base
    \/ \E n \in Operators, key \in ReaderKeys : maintain(n, key)
    \/ \E n \in Operators : stream(n)
    \/ commit_assign
    \/ commit_perform_migration
    \/ commit_boot
    \/ commit_columns
    \/ commit_connect
    \/ commit_replay_paths
    \/ \E d \in DOMAIN txs : commit_finalize(d)
    \/ commit_finalized
    \/ commit_return
    \/ \E d \in DOMAIN txs : domain_recv(d)

SpecKey == Init /\ [][NextKey]_vars

\* one Blender after another in the same process
NextReg ==
    \/ start_migration
    \/ add_ingredient({})
    \/ \E n \in Operators, key \in Keys : maintain(n, key)
    \/ \E n \in Operators : stream(n)
    \/ commit_assign
    \/ commit_perform_migration
    \/ commit_boot
    \/ commit_columns
    \/ commit_connect
    \/ commit_replay_paths
    \/ \E d \in DOMAIN txs : commit_finalize(d)
    \/ commit_finalized
    \/ commit_return
    \/ \E d \in DOMAIN txs : domain_recv(d)
    \/ \E r \in NodeIds(ingredients) : register_handle(r)
    \/ drop_blender
    \/ drop_quit
    \/ drop_join
    \/ new_blender

SpecReg == Init /\ [][NextReg]_vars

\* lookups through the closures of get_getter beside the replays of the domains
NextRead ==
    \/ start_migration
    \/ add_ingredient({})
    \/ \E n \in Operators, key \in Keys : maintain(n, key)
    \/ commit_assign
    \/ commit_perform_migration
    \/ commit_boot
    \/ commit_columns
    \/ commit_connect
    \/ commit_replay_paths
    \/ \E d \in DOMAIN txs : commit_finalize(d)
    \/ commit_finalized
    \/ commit_return
    \/ \E d \in DOMAIN txs : domain_recv(d)
    \/ \E r \in NodeIds(ingredients) : register_handle(r)
    \/ \E n \in Operators, q \in Queries, block \in BOOLEAN : getter_call(n, q, block)
    \/ \E r \in DOMAIN backlog, q \in Queries, rows \in 0..MaxRows : replay(r, q, rows)
    \/ \E l \in lookup : getter_return(l)

SpecRead ==
    /\ Init
    /\ [][NextRead]_vars
    /\ WF_vars(\E r \in DOMAIN backlog, q \in Queries, rows \in 0..MaxRows : replay(r, q, rows))
    /\ WF_vars(\E l \in lookup : getter_return(l))

\* ------------------------------------------------------------------ claims
AfterAssign == {"perform_migration", "boot", "columns", "connect", "replay_paths", "finalize",
                "return"}

\* a commit has run to the end of its graph steps (and no later one aborted)
Committed == pc \in AfterAssign \cup {"idle"} /\ nmig > 0

Readers(g) == {r \in NodeIds(g) : g.nodes[r].type = "Reader"}

ReaderChildren(g, n) == Children(g, n) \cap Readers(g)

ReaderParent(g, r) == CHOOSE p \in NodeIds(g) : find_edge(g, p, r) # {}

CrossDomain(g, e) == e.src # Source /\ DomainOf(g, e.src) # DomainOf(g, e.dst)

RealizedBy(g, p, n) ==
    \E e, i \in NodeIds(g) :
        /\ g.nodes[e].type = "Egress" /\ DomainOf(g, e) = DomainOf(g, p)
        /\ g.nodes[i].type = "Ingress" /\ DomainOf(g, i) = DomainOf(g, n)
        /\ find_edge(g, p, e) # {} /\ find_edge(g, e, i) # {} /\ find_edge(g, i, n) # {}

Addressed(g, d) == {m \in NodeIds(g) : DomainOf(g, m) = d /\ g.nodes[m].addr # None}

C2_TimestampExclusivity ==
    /\ \A w \in writes : \A k \in 1..Len(ranges) :
          ~(ranges[k][1] <= w.ts /\ w.ts <= ranges[k][2])
    /\ \A j, k \in 1..Len(ranges) :
          j < k => ranges[j][2] < ranges[k][1]
    /\ \A k \in 1..Len(ranges) : ranges[k][1] <= ranges[k][2]

C2_Witness ==
    /\ Len(ranges) = 2
    /\ \E w1, w2 \in writes :
          /\ w1.at = "perform_migration"
          /\ w1.ts < ranges[2][1]
          /\ w2.ts > ranges[2][2]

\* C3: while a commit holds its range, a domain processes only writes below
\* start_ts; a write at or above a migration's end_ts is issued only once that
\* migration's finalize is over; finalize publishes end_ts only after the replay
\* paths were registered and nothing but the return follows it.
C3_CommitOrdering ==
    /\ \A p \in processed : p.start # None => p.ts < p.start
    /\ \A w \in writes : \A k \in 1..Len(ranges) :
          w.ts >= ranges[k][2] => w.finalized >= k
    /\ \A d \in DOMAIN published : \A i \in 1..Len(published[d]) :
          /\ published[d][i].replay_paths
          /\ \/ \E k \in 1..Len(finalized) : finalized[k] = published[d][i].at
             \/ pc = "finalize" /\ published[d][i].at = commit.end_ts
    /\ pc = "return" => Len(finalized) = Len(ranges)

C3_Witness ==
    /\ \E p \in processed : p.start # None
    /\ \E w \in writes : \E k \in 1..Len(ranges) : w.ts >= ranges[k][2]
    /\ \E d \in DOMAIN published : Len(published[d]) = 2

\* C4: after a commit, an edge that does not leave Source joins two domains only
\* as Egress -> Ingress, and every parent of an operator that lives in another
\* domain is reached through an Egress in the parent's domain and an Ingress in
\* the operator's domain.
C4_IngressEgress ==
    Committed =>
        /\ \A k \in 1..Len(ingredients.edges) :
              CrossDomain(ingredients, ingredients.edges[k]) =>
                 /\ ingredients.nodes[ingredients.edges[k].src].type = "Egress"
                 /\ ingredients.nodes[ingredients.edges[k].dst].type = "Ingress"
        /\ \A n \in NodeIds(ingredients) : \A p \in ingredients.nodes[n].parents :
              DomainOf(ingredients, p) # DomainOf(ingredients, n) =>
                 RealizedBy(ingredients, p, n)

C4_Witness ==
    /\ pc = "idle"
    /\ \E n \in NodeIds(ingredients) : \E p \in ingredients.nodes[n].parents :
          /\ DomainOf(ingredients, p) # DomainOf(ingredients, n)
          /\ RealizedBy(ingredients, p, n)

\* C5: once commit has assigned domains, and also when it then aborts, every
\* non-source node has a parent and a domain, whatever made the node.
C5_ParentAndDomain ==
    (pc \in AfterAssign \cup {"idle", "commit_panicked"} /\ nmig > 0) =>
        \A n \in NodeIds(ingredients) \ {Source} :
            /\ Parents(ingredients, n) # {}
            /\ DomainOf(ingredients, n) # None

\* C6: after a commit, the local addresses of every domain are pairwise distinct
\* and are exactly 0 .. (number of nodes of the domain) - 1.
C6_Density ==
    Committed =>
        \A d \in DomainsOf(ingredients) :
            LET ns == DomainNodes(ingredients, d)
                as == {ingredients.nodes[n].addr : n \in ns}
            IN  /\ as = 0..(Cardinality(ns) - 1)
                /\ Cardinality(as) = Cardinality(ns)

C6_Witness ==
    /\ pc = "return"
    /\ nmig = 2
    /\ \E d \in DomainsOf(ingredients) :
          /\ DomainNodes(ingredients, d) \cap commit.new # {}
          /\ Cardinality(DomainNodes(ingredients, d) \ commit.new) >= 2

\* C7: a node keeps the domain and the local address it has; commit gives an
\* address only to nodes of its set new, numbering the new nodes of a domain in
\* index order from the count of the nodes the domain had before.
C7_Stability ==
    [][\A n \in NodeIds(ingredients) :
          LET old == ingredients.nodes[n]
              now == ingredients'.nodes[n]
          IN  /\ old.domain # None => now.domain = old.domain
              /\ old.addr # None => now.addr = old.addr
              /\ (old.addr = None /\ now.addr # None) =>
                    /\ n \in commit'.new
                    /\ now.addr = Cardinality(Addressed(ingredients, now.domain))
                         + Cardinality({m \in commit'.new :
                               m < n /\ ingredients'.nodes[m].domain = now.domain})]_vars

C7_Witness ==
    /\ pc = "perform_migration"
    /\ nmig = 2
    /\ \E n \in commit.new : \E m \in NodeIds(ingredients) \ commit.new :
          /\ DomainOf(ingredients, m) = DomainOf(ingredients, n)
          /\ ingredients.nodes[n].addr > ingredients.nodes[m].addr
          /\ ingredients.nodes[n].addr >= 2

\* C8 as stated: an operator node is transactional exactly if all its parents in
\* the graph are.
C8_AllParents ==
    \A n \in NodeIds(ingredients) :
        IsOperator(ingredients, n) =>
            (ingredients.nodes[n].transactional <=>
                \A p \in Parents(ingredients, n) : ingredients.nodes[p].transactional)

\* C8 amended: an operator that has parent operators is transactional exactly if
\* all of them are; one without parents hangs off Source and need not be.
C8_OperatorParents ==
    \A n \in NodeIds(ingredients) :
        (IsOperator(ingredients, n) /\ ingredients.nodes[n].parents # {}) =>
            (ingredients.nodes[n].transactional <=>
                \A p \in ingredients.nodes[n].parents : ingredients.nodes[p].transactional)

C8_Witness ==
    \E n \in NodeIds(ingredients) : \E p, q \in ingredients.nodes[n].parents :
        /\ ingredients.nodes[p].transactional
        /\ ~ingredients.nodes[q].transactional
        /\ ~ingredients.nodes[n].transactional

\* C9: a node has at most one Reader child, every Reader has exactly one parent,
\* and the registry holds at most one read handle per Reader.
C9_OneReader ==
    /\ \A n \in NodeIds(ingredients) : Cardinality(ReaderChildren(ingredients, n)) <= 1
    /\ \A r \in Readers(ingredients) : Cardinality(Parents(ingredients, r)) = 1
    /\ \A e, f \in VIEW_READERS : e[1] = f[1] => e = f

\* C10: a Reader of a transactional node on which maintain has completed holds a
\* TokenGenerator, and so does every such Reader with a registered read handle.
C10_TokenGenerator ==
    \A r \in Readers(ingredients) :
        (/\ ingredients.nodes[ReaderParent(ingredients, r)].transactional
         /\ \/ ingredients.nodes[r].state # None
            \/ r \in Registered(VIEW_READERS))
        => ingredients.nodes[r].token_generator

C10_Witness ==
    \E r \in Registered(VIEW_READERS) :
        /\ ingredients.nodes[ReaderParent(ingredients, r)].transactional
        /\ ingredients.nodes[r].streamers > 0
        /\ ingredients.nodes[r].token_generator

\* a write to a base of the token was issued after the read that made the token
WriteSince(e) == \E w \in writes : w.base \in e.token.bases /\ w.ts >= e.at

\* C11 as stated: a token validates true as long as no write to a base its reader
\* depends on was made after the read, and false once there was one.
C11_TokenValidity ==
    \A e \in tokens : get_validator(e.token) <=> ~WriteSince(e)

\* C11 amended: a token validates true exactly if its read reflected every write
\* issued before it to the bases of its reader and no such write was made since;
\* a read made while a write is still queued at the domain gives a token that
\* validates false from the start.
C11_ReflectedTokenValidity ==
    \A e \in tokens : get_validator(e.token) <=> (e.fresh /\ ~WriteSince(e))

C11_Witness ==
    \E e1, e2 \in tokens :
        /\ e1.fresh /\ WriteSince(e1) /\ ~get_validator(e1.token)
        /\ e2.fresh /\ e2.at > e1.at /\ e2.token.ts > 0 /\ get_validator(e2.token)

\* C12: dropping a Migration without commit leaves the graph and the domain
\* counter as they were when the Migration was started.
C12_NoChangeUntilCommit ==
    [][(pc = "building" /\ active' < active) =>
          /\ ingredients' = snapshot.ingredients
          /\ ndomains' = snapshot.ndomains]_vars

\* C13: when commit goes on to connect the domains, it has sent one packet per
\* accumulated column change, in the order of the calls, each to the control
\* channel of the domain of its base, and every one of them has been answered;
\* until then the packets sent are the first of the changes, in order.
C13_ColumnAcks ==
    /\ pc \in {"columns", "connect", "replay_paths", "finalize", "return"} =>
          /\ Len(commit.acks) <= Len(migration.columns)
          /\ \A i \in 1..Len(commit.acks) :
                /\ commit.acks[i].node = migration.columns[i][1]
                /\ commit.acks[i].change = migration.columns[i][2]
                /\ commit.acks[i].domain = DomainOf(ingredients, migration.columns[i][1])
          /\ \A d \in DOMAIN txs : \A j \in 1..Len(txs[d]) :
                txs[d][j].type \in {"AddBaseColumn", "DropBaseColumn"} =>
                   /\ commit.acks[txs[d][j].ack].domain = d
                   /\ commit.acks[txs[d][j].ack].status = "pending"
    /\ pc \in {"connect", "replay_paths", "finalize", "return"} =>
          /\ Len(commit.acks) = Len(migration.columns)
          /\ \A i \in 1..Len(commit.acks) : commit.acks[i].status = "acked"
    /\ pc \in {"assign", "perform_migration", "boot", "building", "idle"} => commit.acks = <<>>

C13_Witness ==
    /\ pc = "connect"
    /\ Len(migration.columns) = 2
    /\ migration.columns[1][2].change # migration.columns[2][2].change
    /\ migration.added # <<>>

\* C14: when the Blender is dropped, Quit has been tried on the control channel of
\* every domain before the first worker is joined, a send that failed because the
\* worker was gone does not stop the drop, in the end every worker was joined
\* (none of them, and nothing sent, with zero domains), and the drop, once
\* started, ends.
C14_Shutdown ==
    /\ [](pc \in {"dropping", "joining", "dropped"} =>
            /\ \A d \in DOMAIN shutdown.quit :
                  shutdown.quit[d] = "failed" => d \in exited \/ d \notin Range(domains)
            /\ shutdown.joined # <<>> => DOMAIN shutdown.quit = DOMAIN txs
            /\ pc \in {"joining", "dropped"} => DOMAIN shutdown.quit = DOMAIN txs
            /\ pc = "dropped" => /\ shutdown.joined = domains
                                 /\ Range(domains) \subseteq exited
            /\ DOMAIN txs = {} => shutdown.quit = <<>> /\ shutdown.joined = <<>>)
    /\ [](pc # "panicked")
    /\ (pc = "dropping") ~> (pc = "dropped")

C14_Witness ==
    /\ pc = "dropped"
    /\ Len(shutdown.joined) >= 2
    /\ \E d, e \in DOMAIN shutdown.quit :
          shutdown.quit[d] = "failed" /\ shutdown.quit[e] = "sent"

C16_Getter ==
    active = 0 =>
        \A n \in NodeIds(ingredients) :
            get_getter(ingredients, VIEW_READERS, n) = None
                <=> ReaderChildren(ingredients, n) \cap Registered(VIEW_READERS) = {}

\* C17: a memcached_hook call that returns the I/O error leaves the graph and
\* the Migration as they were.
C17_HookError ==
    [][ret' = "IoError" => /\ ingredients' = ingredients
                           /\ migration' = migration
                           /\ pc' = pc]_vars

C17_Witness ==
    /\ ret = "IoError"
    /\ migration.added # <<>>
    /\ \E h \in NodeIds(ingredients) : ingredients.nodes[h].type = "Hook"

\* C18: an entry of added gets a domain only through assign_domain on a node that
\* was added in this migration and had none, any other assign_domain is fatal;
\* once commit has assigned the domains, a manually assigned node is in the
\* domain it was given.
C18_AssignDomain ==
    /\ [](pc \in AfterAssign =>
            \A n \in DOMAIN migration.added :
                migration.added[n] # None => DomainOf(ingredients, n) = migration.added[n])
    /\ [][\A n \in DOMAIN migration'.added :
            (/\ migration'.added[n] # None
             /\ n \in DOMAIN migration.added => migration.added[n] # migration'.added[n])
            => \/ pc' = "panicked"
               \/ n \in DOMAIN migration.added /\ migration.added[n] = None /\ pc' = pc]_vars

C18_Witness ==
    /\ pc = "perform_migration"
    /\ nmig = 2
    /\ \E n, m \in DOMAIN migration.added :
          /\ migration.added[n] # None
          /\ migration.added[m] = None
          /\ DomainOf(ingredients, n) = migration.added[n]
          /\ DomainOf(ingredients, m) # DomainOf(ingredients, n)

\* C19: add_column and drop_column are fatal, and change nothing, for a node added
\* in this migration or a node that is not a base; otherwise the call appends one
\* entry for that base to the column changes; nothing else extends the sequence,
\* and no entry is for a node of the added set.
C19_ColumnChanges ==
    /\ [](\A i \in 1..Len(migration.columns) :
            /\ migration.columns[i][1] \notin DOMAIN migration.added
            /\ ingredients.nodes[migration.columns[i][1]].type = "Base")
    /\ [][LET old == migration.columns
              new == migration'.columns
          IN  /\ \A n \in Operators :
                    (add_column(n) \/ \E c \in 0..MaxColumns : drop_column(n, c)) =>
                        IF n \in DOMAIN migration.added \/ ingredients.nodes[n].type # "Base"
                        THEN /\ pc' = "panicked"
                             /\ new = old
                             /\ ingredients' = ingredients
                        ELSE /\ pc' = pc
                             /\ Len(new) = Len(old) + 1
                             /\ SubSeq(new, 1, Len(old)) = old
                             /\ new[Len(new)][1] = n
              /\ (new # old /\ new # <<>>) =>
                    \E n \in Operators :
                        add_column(n) \/ \E c \in 0..MaxColumns : drop_column(n, c)]_vars

C19_Witness ==
    /\ pc = "building"
    /\ Len(migration.columns) = 2
    /\ migration.columns[1][2].change = "Add"
    /\ migration.columns[2][2].change = "Drop"
    /\ migration.added # <<>>

\* C20: with no Migration alive, inputs() lists every Base of the graph once and
\* nothing else, and every Base hangs off an Ingress that hangs off Source.
C20_Inputs ==
    pc = "idle" =>
        LET in == inputs(ingredients)
            bases == {n \in NodeIds(ingredients) : ingredients.nodes[n].type = "Base"}
        IN  /\ Range(in) = bases
            /\ Len(in) = Cardinality(bases)
            /\ \A b \in bases : \E i \in NodeIds(ingredients) :
                  /\ ingredients.nodes[i].type = "Ingress"
                  /\ Parents(ingredients, b) = {i}
                  /\ Parents(ingredients, i) = {Source}

C20_Witness ==
    /\ pc = "idle"
    /\ nmig = 2
    /\ Len(inputs(ingredients)) = 2
    /\ \E a, b \in Range(inputs(ingredients)) :
          a # b /\ DomainOf(ingredients, a) = DomainOf(ingredients, b)
    /\ \E n \in NodeIds(ingredients) : ingredients.nodes[n].type = "Internal"

\* the domains named by the nodes of a graph
UsedDomains(g) == {DomainOf(g, n) : n \in NodeIds(g)} \ {None}

C22_ReaderPlacement ==
    /\ pc \in AfterAssign =>
          \A p \in DOMAIN migration.readers :
              /\ DomainOf(ingredients, migration.readers[p]) # None
              /\ DomainOf(ingredients, migration.readers[p]) = DomainOf(ingredients, p)
    /\ \A r \in Readers(ingredients) :
          DomainOf(ingredients, r) # None =>
             \A p \in Parents(ingredients, r) : DomainOf(ingredients, p) = DomainOf(ingredients, r)
    /\ Committed =>
          \A k \in 1..Len(ingredients.edges) :
              ingredients.nodes[ingredients.edges[k].dst].type = "Reader" =>
                 /\ DomainOf(ingredients, ingredients.edges[k].dst) # None
                 /\ ~CrossDomain(ingredients, ingredients.edges[k])

C22_Witness ==
    /\ pc = "perform_migration"
    /\ nmig = 2
    /\ \E p \in DOMAIN migration.readers :
          /\ p \notin DOMAIN migration.added
          /\ DomainOf(ingredients, p) = 1
          /\ DomainOf(ingredients, migration.readers[p]) = 1

\* a call with block = true on this key of this Reader is waiting
Waiting(r, q) == \E l \in lookup : l.reader = r /\ l.key = q /\ l.status = "waiting"

\* C23: a call of a get_getter closure with block = false has returned at once,
\* with no rows when the key was missing; a call with block = true on a missing key
\* of a partial materialization has not returned while the key is a hole, returns
\* the rows the replay put under the key, and does return once the replay is done.
C23_BlockingLookup ==
    /\ [](\A l \in lookup :
            /\ ~l.block => /\ l.status = "returned"
                           /\ l.missed => l.rows = 0
            /\ l.status = "waiting" => l.block /\ l.missed
            /\ (l.block /\ l.missed /\ backlog[l.reader][l.key] = None) => l.status = "waiting"
            /\ (l.block /\ l.missed /\ l.status = "returned") =>
                  /\ backlog[l.reader][l.key] # None
                  /\ l.rows = backlog[l.reader][l.key])
    /\ \A r \in 1..(2 * MaxNodes) : \A q \in Queries :
          Waiting(r, q) ~> (~Waiting(r, q) /\ \E l \in lookup :
                               /\ l.reader = r /\ l.key = q /\ l.block /\ l.missed
                               /\ l.status = "returned")

C23_Witness ==
    \E l1, l2 \in lookup :
        /\ l1.block /\ l1.missed /\ l1.status = "returned" /\ l1.rows = 1
        /\ ~l2.block /\ l2.missed /\ l2.status = "returned" /\ l2.rows = 0
        /\ l2.key # l1.key
        /\ backlog[l2.reader][l2.key] = None

\* the edges a step has appended to the graph
NewEdges == {ingredients'.edges[k] : k \in (Len(ingredients.edges) + 1)..Len(ingredients'.edges)}

\* the step has appended one node, with no domain, recorded it in added as
\* unassigned, and has left the nodes and edges there were alone
AddedOne ==
    LET ni == Len(ingredients.nodes) + 1
    IN  /\ Len(ingredients'.nodes) = ni
        /\ SubSeq(ingredients'.nodes, 1, ni - 1) = ingredients.nodes
        /\ SubSeq(ingredients'.edges, 1, Len(ingredients.edges)) = ingredients.edges
        /\ DomainOf(ingredients', ni) = None
        /\ ni \notin DOMAIN migration.added
        /\ DOMAIN migration'.added = DOMAIN migration.added \cup {ni}
        /\ migration'.added[ni] = None
        /\ \A n \in DOMAIN migration.added : migration'.added[n] = migration.added[n]

\* C24: add_ingredient makes the node transactional exactly if it has parents and
\* all of them are transactional, adds one edge that is not materialized from each
\* parent, or one from Source when there is no parent, and records the node in
\* added without a domain; add_transactional_base makes the node transactional
\* and adds one such edge from Source.
C24_AddIngredient ==
    [][LET ni == Len(ingredients.nodes) + 1
       IN  /\ \A ps \in SUBSET Operators :
                 add_ingredient(ps) =>
                    /\ AddedOne
                    /\ ingredients'.nodes[ni].transactional =
                          (ps # {} /\ \A p \in ps : ingredients.nodes[p].transactional)
                    /\ NewEdges = IF ps = {} THEN {[src |-> Source, dst |-> ni, w |-> FALSE]}
                                  ELSE {[src |-> p, dst |-> ni, w |-> FALSE] : p \in ps}
                    /\ Len(ingredients'.edges) = Len(ingredients.edges) +
                          (IF ps = {} THEN 1 ELSE Cardinality(ps))
           /\ add_transactional_base =>
                 /\ AddedOne
                 /\ ingredients'.nodes[ni].transactional
                 /\ NewEdges = {[src |-> Source, dst |-> ni, w |-> FALSE]}
                 /\ Len(ingredients'.edges) = Len(ingredients.edges) + 1]_vars

C24_Witness ==
    /\ pc = "building"
    /\ \E n \in DOMAIN migration.added : \E p, q \in ingredients.nodes[n].parents :
          /\ p # q
          /\ ingredients.nodes[p].transactional /\ ingredients.nodes[q].transactional
          /\ ingredients.nodes[n].transactional
          /\ migration.added[n] = None
          /\ Parents(ingredients, n) = {p, q}
    /\ \E b \in DOMAIN migration.added :
          /\ ingredients.nodes[b].transactional
          /\ Parents(ingredients, b) = {Source}

\* C25: materialize on a pair without an edge is fatal and changes nothing; on an
\* edge it leaves the flag true, records the pair exactly if the flag was false,
\* changes nothing when the flag was true already, and no step, of the caller or
\* of commit, takes the flag of an edge back to false.
C25_Materialize ==
    /\ [](pc = "building" =>
            \A pr \in migration.materialize :
                \E k \in find_edge(ingredients, pr[1], pr[2]) : ingredients.edges[k].w)
    /\ [][/\ \A k \in 1..Len(ingredients.edges) :
                ingredients.edges[k].w =>
                   /\ k <= Len(ingredients'.edges)
                   /\ ingredients'.edges[k].w
                   /\ ingredients'.edges[k].dst = ingredients.edges[k].dst
          /\ \A src \in NodeIds(ingredients), dst \in Operators :
                materialize(src, dst) =>
                   LET es == find_edge(ingredients, src, dst)
                   IN  IF es = {}
                       THEN /\ pc' = "panicked"
                            /\ ingredients' = ingredients
                            /\ migration' = migration
                       ELSE /\ pc' = pc
                            /\ \A k \in es : ingredients'.edges[k].w
                            /\ ingredients'.nodes = ingredients.nodes
                            /\ \A k \in 1..Len(ingredients.edges) :
                                  k \notin es => ingredients'.edges[k] = ingredients.edges[k]
                            /\ <<src, dst>> \in migration'.materialize \ migration.materialize
                                  <=> \E k \in es : ~ingredients.edges[k].w
                            /\ migration'.materialize \ {<<src, dst>>}
                                  = migration.materialize \ {<<src, dst>>}
                            /\ (\A k \in es : ingredients.edges[k].w) =>
                                  /\ ingredients' = ingredients
                                  /\ migration' = migration]_vars

C25_Witness ==
    /\ pc = "building"
    /\ nmig = 2
    /\ migration.materialize # {}
    /\ \E k \in 1..Len(ingredients.edges) :
          /\ ingredients.edges[k].w
          /\ ingredients.nodes[ingredients.edges[k].src].type = "Ingress"
          /\ <<ingredients.edges[k].src, ingredients.edges[k].dst>> \notin migration.materialize

\* C26: the key of a Reader, once set, stays as it is; maintain on a Reader with
\* a key changes nothing when given that key and is fatal when given another
\* one, maintain on a Reader without a key sets it, and nothing but maintain gives
\* a Reader a key, so that a Reader made by stream alone has none.
C26_ReaderKey ==
    [][/\ \A r \in Readers(ingredients) :
             ingredients.nodes[r].state # None =>
                ingredients'.nodes[r].state = ingredients.nodes[r].state
       /\ \A n \in Operators : \A key \in ReaderKeys :
             maintain(n, key) =>
                LET ri == migration'.readers[n]
                    keyed == HasReader(migration, n) /\ ingredients.nodes[ri].state # None
                IN  IF keyed
                    THEN IF ingredients.nodes[ri].state = key
                         THEN /\ pc' = pc
                              /\ ingredients' = ingredients
                              /\ migration' = migration
                         ELSE pc' = "panicked"
                    ELSE /\ pc' = pc
                         /\ ingredients'.nodes[ri].state = key
       /\ \A n \in Operators :
             stream(n) =>
                LET ri == migration'.readers[n]
                IN  ingredients'.nodes[ri].state =
                       IF HasReader(migration, n) THEN ingredients.nodes[ri].state ELSE None
       /\ \A r \in Readers(ingredients') :
             (/\ ingredients'.nodes[r].state # None
              /\ r \in Readers(ingredients) => ingredients.nodes[r].state = None)
             => \E n \in Operators : \E key \in ReaderKeys :
                   maintain(n, key) /\ migration'.readers[n] = r]_vars

C26_Witness ==
    /\ pc = "panicked"
    /\ \E n \in DOMAIN migration.readers :
          /\ ingredients.nodes[migration.readers[n]].state = 0
          /\ ingredients.nodes[migration.readers[n]].streamers > 0
    /\ \E r \in Readers(ingredients) :
          ingredients.nodes[r].state = None /\ ingredients.nodes[r].taken

\* C27: stream on a node none of whose Readers was handed to a domain adds the
\* subscriber to the Reader and sends nothing; stream on a node with a Reader that
\* an earlier commit handed to a domain sends one AddStreamer with the local
\* address of that Reader to the control channel of its domain and makes no node.
C27_Stream ==
    [][\A n \in Operators :
          stream(n) =>
             LET given == {r \in ReaderChildren(ingredients, n) : ingredients.nodes[r].taken}
                 ri == migration'.readers[n]
             IN  IF given = {}
                 THEN /\ txs' = txs
                      /\ ingredients'.nodes[ri].streamers =
                            (IF HasReader(migration, n) THEN ingredients.nodes[ri].streamers
                             ELSE 0) + 1
                 ELSE /\ Len(ingredients'.nodes) = Len(ingredients.nodes)
                      /\ \E r \in given :
                            txs' = [txs EXCEPT ![DomainOf(ingredients, r)] =
                                       Append(@, [type |-> "AddStreamer",
                                                  node |-> ingredients.nodes[r].addr])]]_vars

\* C28: outside the steps of commit that set the tables up, the domains with a
\* control channel, those with an input channel, those with a booted worker and
\* those that hold a node are the same, each worker was booted once, a domain
\* index that was handed out and holds no node has no channel and no worker, and
\* a worker is booted only for a domain all of whose nodes are new in that commit.
C28_DomainTables ==
    /\ [](pc \notin {"perform_migration", "boot", "commit_panicked"} =>
            /\ DOMAIN txs = DOMAIN in_txs
            /\ DOMAIN txs = UsedDomains(ingredients)
            /\ Range(domains) = DOMAIN txs
            /\ Len(domains) = Cardinality(Range(domains))
            /\ \A d \in Range(handed) \ UsedDomains(ingredients) :
                  d \notin DOMAIN txs \cup DOMAIN in_txs \cup Range(domains))
    /\ [][/\ Len(domains') >= Len(domains)
          /\ SubSeq(domains', 1, Len(domains)) = domains
          /\ \A i \in (Len(domains) + 1)..Len(domains') :
                /\ domains'[i] \notin Range(domains)
                /\ DomainNodes(ingredients, domains'[i]) # {}
                /\ DomainNodes(ingredients, domains'[i]) \subseteq commit.new]_vars

C28_Witness ==
    /\ pc = "return"
    /\ nmig = 2
    /\ Len(domains) = 2
    /\ \E d \in Range(handed) : d \notin UsedDomains(ingredients) /\ d \notin DOMAIN txs
    /\ \E n \in commit.new : \E m \in NodeIds(ingredients) \ commit.new :
          /\ m # Source
          /\ DomainOf(ingredients, m) = DomainOf(ingredients, n)

\* C29: with workers that keep taking packets off their control channels and
\* answer every column packet, a commit that has assigned the domains never
\* aborts and reaches its end, whatever the column changes and the domains they
\* go to; while a column packet is still to be sent, the caller is not waiting
\* for an ack.
C29_CommitTerminates ==
    /\ (pc \in AfterAssign) ~> (pc = "idle")
    /\ [](pc # "commit_panicked")
    /\ [](pc = "columns" /\ Len(commit.acks) < Len(migration.columns) =>
            LET d == DomainOf(ingredients, migration.columns[Len(commit.acks) + 1][1])
            IN  /\ d \in Range(domains)
                /\ Len(txs[d]) < ControlCap => ENABLED commit_columns
                /\ Len(txs[d]) >= ControlCap => ENABLED domain_recv(d))

C29_Witness ==
    /\ pc = "columns"
    /\ Len(migration.columns) = 2
    /\ Len(commit.acks) = 2
    /\ commit.acks[1].domain = commit.acks[2].domain
    /\ commit.acks[1].status = "acked"
    /\ commit.acks[2].status = "pending"
    /\ Len(txs[commit.acks[2].domain]) = ControlCap
    /\ Cardinality(DOMAIN txs) >= 2

\* the registry entry a getter for this Reader takes its read handle from
HandleOf(r) == CHOOSE e \in VIEW_READERS : e[1] = r

\* the read handle was registered by a worker of this Blender for this Reader
OwnHandle(r) ==
    /\ HandleOf(r)[2].owner = blender
    /\ HandleOf(r)[2].domain = DomainOf(ingredients, r)
    /\ HandleOf(r)[2].addr = ingredients.nodes[r].addr

\* C30: the closure get_getter or get_transactional_getter returns holds a read
\* handle that a worker of the same Blender registered for the same Reader, also
\* when the process has had another Blender before.
C30_RegistryIsolation ==
    (pc = "idle" /\ active = 0) =>
        \A n \in NodeIds(ingredients) :
            /\ get_getter(ingredients, VIEW_READERS, n) # None =>
                  OwnHandle(get_getter(ingredients, VIEW_READERS, n))
            /\ get_transactional_getter(ingredients, VIEW_READERS, n).kind = "Ok" =>
                  OwnHandle(get_transactional_getter(ingredients, VIEW_READERS, n).reader)
====
